---- MODULE Spec2Model ----
(***************************************************************************)
(* Model of src/task.py: the PredictIt "buy No on every contract"          *)
(* arbitrage calculator, its ledger (data/arbs.csv) and its summarizer.    *)
(*                                                                         *)
(* Money is counted in mills (1/1000 of a unit), so 0.40 is 400 and the    *)
(* arithmetic of the pipeline is exact; the binary rounding of float64 is  *)
(* not modelled.  A pandas DataFrame is a record [columns, rows]: the set  *)
(* of its column names and the sequence of its rows.  A CSV file is a      *)
(* sequence of rows whose cells are texts (sequences of characters); a     *)
(* string cell is one character sequence of length one, the string.        *)
(* Market names and URLs are ordinary strings, none of them one of the     *)
(* tokens read_csv takes for NA.                                           *)
(*                                                                         *)
(* Time is counted in ticks; one tick is one polling interval of main(),   *)
(* and the clock starts at the epoch of the summarizer (2021-03-29), the   *)
(* earliest the program ran.                                               *)
(*                                                                         *)
(* data/markets.json is written and read back within one run and           *)
(* overwritten by the next before it is read again: it is modelled as the  *)
(* body the run holds (raw_markets).  data/markets.csv is written and      *)
(* never read, and is left out.                                            *)
(*                                                                         *)
(* Three specifications: Spec is the polling loop; SpecCalc is one         *)
(* calculate() on any feed of CalcFeeds; SpecSum is the summarizer on any  *)
(* ledger of Logs.                                                         *)
(***************************************************************************)
EXTENDS Integers, Sequences, FiniteSets, TLC

\* ---------------------------------------------------------------- bounds
MaxRuns == 2
MaxContracts == 2
MaxCalcContracts == 4
MaxLogLen == 3
TicksPerDay == 2

\* ------------------------------------------------------ program constants
Unit == 1000
FeeDivisor == 10
Bankroll == 850
min_profit_cutoff == 0
Epoch == 0
DaysPerMonth == 30
DaysPerYear == 365
NaN == -1

\* ------------------------------------------------------------- the feed
MarketKeys == {[shortName |-> "A", url |-> "u1"], [shortName |-> "B", url |-> "u2"]}

ContractPool ==
    { [name |-> "x", bestBuyYesCost |-> 620, bestBuyNoCost |-> 400,
       bestSellYesCost |-> 590, bestSellNoCost |-> 380],
      [name |-> "y", bestBuyYesCost |-> 720, bestBuyNoCost |-> 300,
       bestSellYesCost |-> 690, bestSellNoCost |-> NaN],
      [name |-> "z", bestBuyYesCost |-> 420, bestBuyNoCost |-> 600,
       bestSellYesCost |-> NaN, bestSellNoCost |-> 580],
      [name |-> "w", bestBuyYesCost |-> 990, bestBuyNoCost |-> NaN,
       bestSellYesCost |-> 970, bestSellNoCost |-> NaN] }

MarketOf(k, cs) == [shortName |-> k.shortName, url |-> k.url, contracts |-> cs]

\* Raw feeds: each market at most once, in any order, with at most
\* `budget` contracts in the whole document.
RECURSIVE FeedsWithin(_, _)
FeedsWithin(keys, budget) ==
    {<<>>} \cup
    UNION { UNION { { <<MarketOf(k, cs)>> \o rest :
                        cs \in [1..n -> ContractPool],
                        rest \in FeedsWithin(keys \ {k}, budget - n) } :
                    n \in 0..budget } :
            k \in keys }

Feeds == FeedsWithin(MarketKeys, MaxContracts)
CalcFeeds == FeedsWithin(MarketKeys, MaxCalcContracts)

ErrorBody == [valid |-> FALSE, markets |-> <<>>]
NoBody == [valid |-> TRUE, markets |-> <<>>]

\* ------------------------------------------------------------ data frames
DataFrame(cols, rs) == [columns |-> cols, rows |-> rs]
EmptyFrame == DataFrame({}, <<>>)

MarketCols == {"mshortName", "murl"}
CostCols == {"cbestBuyYesCost", "cbestSellYesCost", "cbestBuyNoCost", "cbestSellNoCost"}
RevenueAndProfitCols == {"contracts_ct", "revenue", "pi_cut"}
FinalCols ==
    MarketCols \cup CostCols \cup RevenueAndProfitCols
        \cup {"pi_cut_min", "pi_cut_less_min", "acct_fee", "profit_net"}
FlatCols == MarketCols \cup {"cname"} \cup CostCols
LogCols == FinalCols \cup {"dttm"}
StrCols == {"mshortName", "murl"}
IntCols == {"contracts_ct", "revenue", "dttm"}

GetContractDataRow(market, contract) ==
    [mshortName |-> market.shortName, murl |-> market.url,
     cname |-> contract.name,
     cbestBuyYesCost |-> contract.bestBuyYesCost,
     cbestBuyNoCost |-> contract.bestBuyNoCost,
     cbestSellYesCost |-> contract.bestSellYesCost,
     cbestSellNoCost |-> contract.bestSellNoCost]

MarketRows(market) ==
    [i \in 1..Len(market.contracts) |-> GetContractDataRow(market, market.contracts[i])]

RECURSIVE Flatten(_)
Flatten(markets) ==
    IF markets = <<>> THEN <<>>
    ELSE MarketRows(Head(markets)) \o Flatten(Tail(markets))

\* DataFrame.drop_duplicates(): the first of equal rows stays.
RECURSIVE DropDuplicates(_)
DropDuplicates(rs) ==
    IF rs = <<>> THEN <<>>
    ELSE LET init == DropDuplicates(SubSeq(rs, 1, Len(rs) - 1))
             last == rs[Len(rs)]
         IN  IF \E i \in 1..Len(init) : init[i] = last THEN init
             ELSE Append(init, last)

\* DataFrame.drop_duplicates(subset=['murl'], keep='last')
KeepLastByUrl(rs) ==
    LET Keep(i) == ~ \E j \in (i + 1)..Len(rs) : rs[j].murl = rs[i].murl
        RECURSIVE Pick(_)
        Pick(i) == IF i > Len(rs) THEN <<>>
                   ELSE (IF Keep(i) THEN <<rs[i]>> ELSE <<>>) \o Pick(i + 1)
    IN  Pick(1)

\* ------------------------------------------------- calculator pipeline
\* the null-cost filter left out
Qualifies_KeepsNull(row) == TRUE

\* ~isnull() of line 49
Qualifies(row) == row.cbestBuyNoCost # NaN

\* (1 - x) * 0.1
PiCut(x) == (Unit - x) \div FeeDivisor

ContractLevelRow(r) ==
    r @@ [contracts_ct |-> 1, revenue |-> 1,
          pi_cut |-> PiCut(r.cbestBuyNoCost), pi_cut_min |-> PiCut(r.cbestBuyNoCost)]

ContractLevelFrame(df) ==
    LET kept == SelectSeq(df.rows, Qualifies)
    IN  DataFrame(df.columns \cup {"contracts_ct", "revenue", "pi_cut", "pi_cut_min"},
                  [i \in 1..Len(kept) |-> ContractLevelRow(kept[i])])

GroupKey(r) == <<r.mshortName, r.murl>>

\* groupby(sort=False): the groups in the order of their first row
GroupKeys(rs) == DropDuplicates([i \in 1..Len(rs) |-> GroupKey(rs[i])])

GroupOf(rs, k) ==
    LET InGroup(r) == GroupKey(r) = k
    IN  SelectSeq(rs, InGroup)

\* 'sum' skips NaN; the sum of no value is 0
RECURSIVE SumCol(_, _)
SumCol(rs, col) ==
    IF rs = <<>> THEN 0
    ELSE (IF Head(rs)[col] = NaN THEN 0 ELSE Head(rs)[col]) + SumCol(Tail(rs), col)

\* 'first' in place of 'min'
MinCol_TakesFirst(rs, col) == rs[1][col]

RECURSIVE MinCol(_, _)
MinCol(rs, col) ==
    IF Len(rs) = 1 THEN rs[1][col]
    ELSE LET m == MinCol(Tail(rs), col)
         IN  IF rs[1][col] <= m THEN rs[1][col] ELSE m

AggregateGroup(k, g) ==
    [mshortName |-> k[1], murl |-> k[2],
     cbestBuyYesCost |-> SumCol(g, "cbestBuyYesCost"),
     cbestSellYesCost |-> SumCol(g, "cbestSellYesCost"),
     cbestBuyNoCost |-> SumCol(g, "cbestBuyNoCost"),
     cbestSellNoCost |-> SumCol(g, "cbestSellNoCost"),
     contracts_ct |-> SumCol(g, "contracts_ct"),
     revenue |-> SumCol(g, "revenue"),
     pi_cut |-> SumCol(g, "pi_cut"),
     pi_cut_min |-> MinCol(g, "pi_cut_min")]

AggregateFrame(df) ==
    LET ks == GroupKeys(df.rows)
    IN  DataFrame(MarketCols \cup CostCols \cup RevenueAndProfitCols \cup {"pi_cut_min"},
                  [i \in 1..Len(ks) |-> AggregateGroup(ks[i], GroupOf(df.rows, ks[i]))])

\* the placeholder revenue left uncorrected
RevenueCorrection_None(x) == x

\* lambda x: x - 1
RevenueCorrection(x) == x - 1

MarketLevelRow(r) ==
    LET rev == RevenueCorrection(r.revenue)
        less == r.pi_cut - r.pi_cut_min
    IN  [r EXCEPT !.revenue = rev]
            @@ [pi_cut_less_min |-> less,
                profit_net |-> (rev * Unit) - r.cbestBuyNoCost - less,
                acct_fee |-> 0]

MarketLevelFrame(df) ==
    DataFrame(df.columns \cup {"pi_cut_less_min", "profit_net", "acct_fee"},
              [i \in 1..Len(df.rows) |-> MarketLevelRow(df.rows[i])])

\* the profit test left out
FilterPredicate_AnyProfit(r) == r.contracts_ct > 1

FilterPredicate(r) == (r.contracts_ct > 1) /\ (r.profit_net > 0)

FilterFrame(df) == DataFrame(df.columns, SelectSeq(df.rows, FilterPredicate))

\* sort_values('profit_net', ascending=False): equal keys keep their order
RECURSIVE InsertDesc(_, _)
InsertDesc(sorted, x) ==
    IF sorted = <<>> THEN <<x>>
    ELSE IF Head(sorted).profit_net >= x.profit_net
         THEN <<Head(sorted)>> \o InsertDesc(Tail(sorted), x)
         ELSE <<x>> \o sorted

RECURSIVE SortDesc(_)
SortDesc(rs) ==
    IF rs = <<>> THEN <<>>
    ELSE InsertDesc(SortDesc(SubSeq(rs, 1, Len(rs) - 1)), rs[Len(rs)])

\* ------------------------------------------------------------ the ledger
DigitChar == <<"0", "1", "2", "3", "4", "5", "6", "7", "8", "9">>
DigitValues == [c \in {DigitChar[i] : i \in 1..10} |-> CHOOSE d \in 0..9 : DigitChar[d + 1] = c]
DigitVal(c) == DigitValues[c]

RECURSIVE Digits(_)
Digits(n) ==
    IF n < 10 THEN <<DigitChar[n + 1]>>
    ELSE Digits(n \div 10) \o <<DigitChar[(n % 10) + 1]>>

RECURSIVE DigitsValue(_)
DigitsValue(t) ==
    IF t = <<>> THEN 0
    ELSE 10 * DigitsValue(SubSeq(t, 1, Len(t) - 1)) + DigitVal(t[Len(t)])

Abs(v) == IF v < 0 THEN 0 - v ELSE v
SignText(v) == IF v < 0 THEN <<"-">> ELSE <<>>

\* to_csv: NaN is the empty cell; an int is its digits; a float is its
\* integer part, a point and the three digits of its mills.
WriteInt(v) == IF v = NaN THEN <<>> ELSE SignText(v) \o Digits(Abs(v))
WriteFloat(v) ==
    IF v = NaN THEN <<>>
    ELSE SignText(v) \o Digits(Abs(v) \div Unit) \o <<".">>
            \o SubSeq(Digits(Unit + (Abs(v) % Unit)), 2, 4)
WriteStr(v) == <<v>>

WriteCell(col, v) ==
    IF col \in StrCols THEN WriteStr(v)
    ELSE IF col \in IntCols THEN WriteInt(v)
    ELSE WriteFloat(v)

\* read_csv: the default NA tokens parse as NaN in every column
NaTokens == {"", "NA", "N/A", "NaN", "nan", "null", "NULL", "None", "n/a", "#N/A"}
StrNaN == "<NaN>"

Unsigned(t) == IF t # <<>> /\ t[1] = "-" THEN Tail(t) ELSE t
Signed(t, v) == IF t # <<>> /\ t[1] = "-" THEN 0 - v ELSE v
PointAt(t) == CHOOSE i \in 1..Len(t) : t[i] = "."

ReadInt(t) == IF t = <<>> THEN NaN ELSE Signed(t, DigitsValue(Unsigned(t)))
ReadFloat(t) ==
    IF t = <<>> THEN NaN
    ELSE LET u == Unsigned(t)
             p == PointAt(u)
         IN  Signed(t, DigitsValue(SubSeq(u, 1, p - 1)) * Unit
                           + DigitsValue(SubSeq(u, p + 1, Len(u))))
ReadStr(t) == IF t = <<>> \/ t[1] \in NaTokens THEN StrNaN ELSE t[1]

ReadCell(col, t) ==
    IF col \in StrCols THEN ReadStr(t)
    ELSE IF col \in IntCols THEN ReadInt(t)
    ELSE ReadFloat(t)

WriteCsv(rs) == [i \in 1..Len(rs) |-> [c \in LogCols |-> WriteCell(c, rs[i][c])]]
ReadCsv(file) == [i \in 1..Len(file) |-> [c \in LogCols |-> ReadCell(c, file[i][c])]]

\* self.arbs.assign(dttm=dttm)
AssignDttm(rs, dttm) == [i \in 1..Len(rs) |-> rs[i] @@ [dttm |-> dttm]]

\* the ledger overwritten with the new rows alone
ConcatLog_NewOnly(new, old) == new

\* pd.concat((new, old))
ConcatLog(new, old) == new \o old

\* ---------------------------------------------------------- the summarizer
\* the cutoff left out
PassesCutoff_Always(r) == TRUE

PassesCutoff(r) == r.profit_net >= min_profit_cutoff

\* log[log.profit_net >= cutoff].drop_duplicates(subset=['murl'], keep='last')
ActionableSet(log) == KeepLastByUrl(SelectSeq(log, PassesCutoff))

\* the first day not counted
DaysElapsed_NoFirstDay(t) == (t - Epoch) \div TicksPerDay

\* (utcnow() - datetime(2021, 3, 29)).days + 1
DaysElapsed(t) == ((t - Epoch) \div TicksPerDay) + 1

RECURSIVE SumProfit(_)
SumProfit(rs) == IF rs = <<>> THEN 0 ELSE Head(rs).profit_net + SumProfit(Tail(rs))

\* round(a / b) for b > 0, ties to even
RoundDiv(a, b) ==
    LET q == a \div b
        r == a - (q * b)
    IN  IF 2 * r < b THEN q
        ELSE IF 2 * r > b THEN q + 1
        ELSE IF q % 2 = 0 THEN q ELSE q + 1

MillsPerCent == Unit \div 100

\* the four lines of the summary; money in cents
SummaryLines(act, days) ==
    LET profit == SumProfit(act) * Bankroll
    IN  [cutoff |-> min_profit_cutoff,
         days_elapsed |-> days,
         since |-> RoundDiv(profit, MillsPerCent),
         monthly |-> RoundDiv(profit * DaysPerMonth, days * MillsPerCent),
         annual |-> RoundDiv(profit * DaysPerYear, days * MillsPerCent)]

NoSummary == [cutoff |-> 0, days_elapsed |-> 0, since |-> 0, monthly |-> 0, annual |-> 0]

\* ------------------------------------------------------------- the state
VARIABLES
    pc,           \* where the process is: a step of run(), or the exception that ended it
    runs,         \* calls of run() so far
    now,          \* datetime.utcnow(), in ticks
    response,     \* self._response: "none", "ok" or "fail"
    raw_markets,  \* data/markets.json as the run wrote it and reads it back
    arbs,         \* Calculator.arbs
    arbs_csv,     \* data/arbs.csv, the ledger
    summary_txt,  \* data/summary.txt
    readme,       \* README.md: the text above the rule, and the summary below it
    actionable,   \* the frame the summarizer last summed (log of line 81)
    commits       \* the commits run() has pushed

vars == <<pc, runs, now, response, raw_markets, arbs, arbs_csv, summary_txt, readme,
          actionable, commits>>

Raised == {"KeyError", "ZeroDivisionError", "JSONDecodeError"}

\* self._arbs_log
ArbsLog == ReadCsv(arbs_csv)

Init ==
    /\ pc = "idle"
    /\ runs = 0
    /\ now = Epoch
    /\ response = "none"
    /\ raw_markets = NoBody
    /\ arbs = EmptyFrame
    /\ arbs_csv = <<>>
    /\ summary_txt = NoSummary
    /\ readme = [head |-> "README", summary |-> NoSummary]
    /\ actionable = <<>>
    /\ commits = <<>>

\* the status never looked at
ReturnsEarly_Never(resp) == FALSE

\* if not self._response.ok: return
ReturnsEarly(resp) == resp # "ok"

\* run() makes a Calculator; calculate() fetches the feed and writes the
\* body to markets.json, whatever the status.
MakeRequest ==
    /\ pc = "idle"
    /\ runs < MaxRuns
    /\ runs' = runs + 1
    /\ arbs' = EmptyFrame
    /\ \/ /\ response' = "fail"
          /\ raw_markets' = ErrorBody
       \/ \E feed \in Feeds :
            /\ response' = "ok"
            /\ raw_markets' = [valid |-> TRUE, markets |-> feed]
    /\ pc' = "requested"
    /\ UNCHANGED <<now, arbs_csv, summary_txt, readme, actionable, commits>>

ReturnNotOk ==
    /\ pc = "requested"
    /\ ReturnsEarly(response)
    /\ pc' = "calculated"
    /\ UNCHANGED <<runs, now, response, raw_markets, arbs, arbs_csv, summary_txt, readme,
                   actionable, commits>>

\* A body that is no feed document has no 'markets' to load.
GetContractData ==
    /\ pc = "requested"
    /\ ~ReturnsEarly(response)
    /\ IF raw_markets.valid
       THEN /\ arbs' = LET rs == DropDuplicates(Flatten(raw_markets.markets))
                       IN  DataFrame(IF rs = <<>> THEN {} ELSE FlatCols, rs)
            /\ pc' = "got_data"
       ELSE /\ arbs' = arbs
            /\ pc' = "JSONDecodeError"
    /\ UNCHANGED <<runs, now, response, raw_markets, arbs_csv, summary_txt, readme,
                   actionable, commits>>

\* self.arbs['cbestBuyNoCost'] of a frame without that column is a KeyError.
CalculateAtContractLevel ==
    /\ pc = "got_data"
    /\ IF "cbestBuyNoCost" \in arbs.columns
       THEN /\ arbs' = ContractLevelFrame(arbs)
            /\ pc' = "contract_level"
       ELSE /\ arbs' = arbs
            /\ pc' = "KeyError"
    /\ UNCHANGED <<runs, now, response, raw_markets, arbs_csv, summary_txt, readme,
                   actionable, commits>>

AggregateAtMarketLevel ==
    /\ pc = "contract_level"
    /\ arbs' = AggregateFrame(arbs)
    /\ pc' = "aggregated"
    /\ UNCHANGED <<runs, now, response, raw_markets, arbs_csv, summary_txt, readme,
                   actionable, commits>>

CalculateAtMarketLevel ==
    /\ pc = "aggregated"
    /\ arbs' = MarketLevelFrame(arbs)
    /\ pc' = "market_level"
    /\ UNCHANGED <<runs, now, response, raw_markets, arbs_csv, summary_txt, readme,
                   actionable, commits>>

FilterData ==
    /\ pc = "market_level"
    /\ arbs' = FilterFrame(arbs)
    /\ pc' = "filtered"
    /\ UNCHANGED <<runs, now, response, raw_markets, arbs_csv, summary_txt, readme,
                   actionable, commits>>

\* if len(self.arbs): the rows are sorted and tagged, the ledger is
\* rewritten with them in front, and the summary is computed from it and
\* written to summary.txt and to the README.
FinalizeAndSaveDataframe ==
    /\ pc = "filtered"
    /\ Len(arbs.rows) > 0
    /\ LET sorted == SortDesc(arbs.rows)
           log == ConcatLog(AssignDttm(sorted, now), ArbsLog)
           act == ActionableSet(log)
           days == DaysElapsed(now)
       IN  /\ arbs' = DataFrame(FinalCols, sorted)
           /\ arbs_csv' = WriteCsv(log)
           /\ actionable' = act
           /\ IF days = 0
              THEN /\ pc' = "ZeroDivisionError"
                   /\ UNCHANGED <<summary_txt, readme>>
              ELSE /\ summary_txt' = SummaryLines(act, days)
                   /\ readme' = [readme EXCEPT !.summary = SummaryLines(act, days)]
                   /\ pc' = "calculated"
    /\ UNCHANGED <<runs, now, response, raw_markets, commits>>

SkipSave ==
    /\ pc = "filtered"
    /\ Len(arbs.rows) = 0
    /\ pc' = "calculated"
    /\ UNCHANGED <<runs, now, response, raw_markets, arbs, arbs_csv, summary_txt, readme,
                   actionable, commits>>

\* The rest of run() and the sleep of main(): the calculator and its
\* response are dropped, and the next request overwrites markets.json.
EndOfRun ==
    /\ now' = now + 1
    /\ response' = "none"
    /\ raw_markets' = NoBody
    /\ arbs' = EmptyFrame
    /\ pc' = "idle"
    /\ UNCHANGED <<runs, arbs_csv, summary_txt, readme, actionable>>

\* if arbs_count := len(calculator.arbs): commit and push
RunPublish ==
    /\ pc = "calculated"
    /\ Len(arbs.rows) > 0
    /\ commits' = Append(commits, [at |-> now, arbs_count |-> Len(arbs.rows)])
    /\ EndOfRun

RunNoPublish ==
    /\ pc = "calculated"
    /\ Len(arbs.rows) = 0
    /\ commits' = commits
    /\ EndOfRun

Next ==
    \/ MakeRequest
    \/ ReturnNotOk
    \/ GetContractData
    \/ CalculateAtContractLevel
    \/ AggregateAtMarketLevel
    \/ CalculateAtMarketLevel
    \/ FilterData
    \/ FinalizeAndSaveDataframe
    \/ SkipSave
    \/ RunPublish
    \/ RunNoPublish

Spec == Init /\ [][Next]_vars

\* --------------------------------------- the calculator on one feed
\* calculate() after a successful fetch, from any feed of CalcFeeds.
InitCalc ==
    /\ pc = "requested"
    /\ runs = 1
    /\ now = Epoch
    /\ response = "ok"
    /\ raw_markets \in {[valid |-> TRUE, markets |-> f] : f \in CalcFeeds}
    /\ arbs = EmptyFrame
    /\ arbs_csv = <<>>
    /\ summary_txt = NoSummary
    /\ readme = [head |-> "README", summary |-> NoSummary]
    /\ actionable = <<>>
    /\ commits = <<>>

NextCalc ==
    \/ GetContractData
    \/ CalculateAtContractLevel
    \/ AggregateAtMarketLevel
    \/ CalculateAtMarketLevel
    \/ FilterData

SpecCalc == InitCalc /\ [][NextCalc]_vars

\* ------------------------------------------ the summarizer on any ledger
SumUrls == {"u1", "u2"}
SumProfits == {0 - 60, 0, 230}

LedgerRow(url, profit, dttm) ==
    [mshortName |-> url, murl |-> url,
     cbestBuyYesCost |-> 0, cbestSellYesCost |-> 0, cbestBuyNoCost |-> 0,
     cbestSellNoCost |-> 0, contracts_ct |-> 2, revenue |-> 1,
     pi_cut |-> 0, pi_cut_min |-> 0, pi_cut_less_min |-> 0, acct_fee |-> 0,
     profit_net |-> profit, dttm |-> dttm]

\* Ledgers as the program files them: the newest capture first.
Logs ==
    UNION { { [i \in 1..n |-> LedgerRow(u[i], p[i], n - i)] :
                u \in [1..n -> SumUrls], p \in [1..n -> SumProfits] } :
            n \in 0..MaxLogLen }

InitSum ==
    /\ pc = "summarize"
    /\ runs = 0
    /\ now \in Epoch..(Epoch + MaxLogLen + TicksPerDay)
    /\ response = "none"
    /\ raw_markets = NoBody
    /\ arbs = EmptyFrame
    /\ arbs_csv \in {WriteCsv(l) : l \in Logs}
    /\ summary_txt = NoSummary
    /\ readme = [head |-> "README", summary |-> NoSummary]
    /\ actionable = <<>>
    /\ commits = <<>>

\* _calculate_profit_from_log(): log is None, the ledger is read; the
\* returned text is kept in summary_txt.
CalculateProfitFromLog ==
    /\ pc = "summarize"
    /\ LET act == ActionableSet(ArbsLog)
           days == DaysElapsed(now)
       IN  /\ actionable' = act
           /\ IF days = 0
              THEN /\ pc' = "ZeroDivisionError"
                   /\ summary_txt' = summary_txt
              ELSE /\ summary_txt' = SummaryLines(act, days)
                   /\ pc' = "summarized"
    /\ UNCHANGED <<runs, now, response, raw_markets, arbs, arbs_csv, readme, commits>>

NextSum == CalculateProfitFromLog

SpecSum == InitSum /\ [][NextSum]_vars

\* ------------------------------------------------ what the claims speak of
Feed == raw_markets.markets
Rows == arbs.rows
RowIndex == 1..Len(arbs.rows)

\* the contracts the feed lists for the market of a record
SourceContracts(r) ==
    LET i == CHOOSE j \in 1..Len(Feed) :
                 Feed[j].shortName = r.mshortName /\ Feed[j].url = r.murl
    IN  Feed[i].contracts

\* contracts listed with a bestBuyNoCost, each listing counted
ListedWithNoCost(cs) == Cardinality({i \in 1..Len(cs) : cs[i].bestBuyNoCost # NaN})

\* the same, equal listings (name and the four prices) counted once
DistinctWithNoCost(cs) == {cs[i] : i \in {j \in 1..Len(cs) : cs[j].bestBuyNoCost # NaN}}

LegFee(c) == (Unit - c.bestBuyNoCost) \div FeeDivisor

RECURSIVE SumNoCost(_)
SumNoCost(S) ==
    IF S = {} THEN 0
    ELSE LET c == CHOOSE x \in S : TRUE IN c.bestBuyNoCost + SumNoCost(S \ {c})

RECURSIVE SumLegFee(_)
SumLegFee(S) ==
    IF S = {} THEN 0
    ELSE LET c == CHOOSE x \in S : TRUE IN LegFee(c) + SumLegFee(S \ {c})

MinLegFee(S) == CHOOSE f \in {LegFee(c) : c \in S} : \A c \in S : f <= LegFee(c)

\* what buying No on every distinct priced leg of a market nets
NetOf(S) ==
    ((Cardinality(S) - 1) * Unit) - SumNoCost(S) - (SumLegFee(S) - MinLegFee(S))

\* the markets of the feed that are an opportunity
Opportunities(feed) ==
    {i \in 1..Len(feed) :
        LET S == DistinctWithNoCost(feed[i].contracts)
        IN  Cardinality(S) > 1 /\ NetOf(S) > 0}

LogIndex == 1..Len(arbs_csv)
InCalculate == {"requested", "got_data", "contract_level", "aggregated", "market_level",
                "filtered"}

\* C1: for every market URL in the ledger, the ActionableSet the
\* summarizer sums holds exactly one row of that URL, and it is the row of
\* the latest capture (dttm) among the ledger's rows of that URL.
C1_ActionableIsLatestPerUrl ==
    LET log == ArbsLog
    IN  \A i \in 1..Len(log) :
            LET mine == {j \in 1..Len(actionable) : actionable[j].murl = log[i].murl}
            IN  /\ Cardinality(mine) = 1
                /\ \A j \in mine : actionable[j].dttm >= log[i].dttm

\* what one step does to the rows the ledger reads as
Count(row, rs) == Cardinality({i \in 1..Len(rs) : rs[i] = row})
RowsOf(rs) == {rs[i] : i \in 1..Len(rs)}
C2_AppendStep ==
    IF pc = "filtered" /\ Len(arbs.rows) > 0
    THEN LET before == ArbsLog
             after == ReadCsv(arbs_csv')
             X == AssignDttm(arbs.rows, now)
         IN  /\ Len(after) = Len(before) + Len(X)
             /\ \A row \in RowsOf(before) \cup RowsOf(X) \cup RowsOf(after) :
                    Count(row, after) = Count(row, before) + Count(row, X)
    ELSE arbs_csv' = arbs_csv \/ ReadCsv(arbs_csv') = ArbsLog
\* C2: the step that appends the rows X of a run puts into the ledger
\* every row read before it, unaltered, and the rows of X tagged with the
\* run's capture time, and nothing else; no other step changes what the
\* ledger reads as.
C2_LedgerAppendMonotonic == [][C2_AppendStep]_vars

C2_Witness ==
    /\ Len(arbs_csv) >= 2
    /\ LET log == ArbsLog
       IN  \E i, j \in LogIndex : log[i].dttm # log[j].dttm

\* C3: every record the calculator emits, and every row of the ledger,
\* has contracts_ct > 1 and profit_net > 0; a market listed with exactly
\* one priced contract is never emitted.
C3_EmittedOnlyMultiLegProfitable ==
    /\ pc \in {"filtered", "calculated"} =>
          \A i \in RowIndex :
              /\ Rows[i].contracts_ct > 1
              /\ Rows[i].profit_net > 0
              /\ ListedWithNoCost(SourceContracts(Rows[i])) # 1
    /\ \A i \in LogIndex :
          /\ ReadCell("contracts_ct", arbs_csv[i].contracts_ct) > 1
          /\ ReadCell("profit_net", arbs_csv[i].profit_net) > 0

C3_Witness ==
    /\ pc = "filtered"
    /\ Len(arbs_csv) > 0
    /\ Rows = <<>>
    /\ \E j \in 1..Len(Feed) :
          /\ Len(Feed[j].contracts) > 1
          /\ ListedWithNoCost(Feed[j].contracts) = 1

\* C4: for every emitted record, revenue is contracts_ct - 1 and
\* profit_net is (contracts_ct - 1) less the summed cbestBuyNoCost of the
\* market's qualifying contracts less (pi_cut - pi_cut_min), pi_cut being
\* the sum over those contracts of (1 - cbestBuyNoCost) * 0.10.
C4_ProfitNetFormula ==
    pc = "filtered" =>
        \A i \in RowIndex :
            LET r == Rows[i]
                S == DistinctWithNoCost(SourceContracts(r))
            IN  /\ r.revenue = r.contracts_ct - 1
                /\ r.cbestBuyNoCost = SumNoCost(S)
                /\ r.pi_cut = SumLegFee(S)
                /\ r.profit_net =
                      ((r.contracts_ct - 1) * Unit) - SumNoCost(S)
                          - (SumLegFee(S) - r.pi_cut_min)

C4_Witness ==
    /\ pc = "filtered"
    /\ \E i \in RowIndex : Rows[i].contracts_ct = 3 /\ Rows[i].revenue = 2

\* C5 as stated: contracts_ct of a record is the number of contracts the
\* feed lists for its market with a bestBuyNoCost, equal listings included.
C5_CountsEveryListing ==
    pc = "filtered" =>
        \A i \in RowIndex :
            Rows[i].contracts_ct = ListedWithNoCost(SourceContracts(Rows[i]))

\* C5 amended: contracts_ct of a market-level record is the number of
\* distinct contracts (by name and the four prices) the feed lists for its
\* market with a bestBuyNoCost; a contract without one is in no row after
\* the contract-level calculation and is never counted.
C5_CountsDistinctPriced ==
    /\ pc = "contract_level" => \A i \in RowIndex : Rows[i].cbestBuyNoCost # NaN
    /\ pc \in {"aggregated", "market_level", "filtered"} =>
          \A i \in RowIndex :
              Rows[i].contracts_ct
                  = Cardinality(DistinctWithNoCost(SourceContracts(Rows[i])))

C5_Witness ==
    /\ pc = "filtered"
    /\ \E i \in RowIndex :
          /\ Rows[i].contracts_ct = 2
          /\ ListedWithNoCost(SourceContracts(Rows[i])) = 3

\* one step of such a cycle
C6_FailedFetchStep ==
    response = "fail" =>
        /\ Rows = <<>>
        /\ pc' \notin Raised
        /\ arbs'.rows = <<>>
        /\ arbs_csv' = arbs_csv
        /\ summary_txt' = summary_txt
        /\ readme' = readme
        /\ actionable' = actionable
        /\ commits' = commits
\* C6: a cycle whose fetch fails does not raise, leaves the ledger, the
\* summary and the report as they were, exposes no opportunity in
\* Calculator.arbs and publishes nothing.
C6_FailedFetchNoOutput == [][C6_FailedFetchStep]_vars

C6_Witness ==
    /\ pc = "calculated"
    /\ response = "fail"
    /\ Len(arbs_csv) > 0
    /\ Len(commits) = 1

\* one step of such a cycle
C7_EmptyCycleStep ==
    (response = "ok" /\ pc \in InCalculate /\ Opportunities(Feed) = {}) =>
        /\ pc' \notin Raised
        /\ arbs_csv' = arbs_csv
        /\ summary_txt' = summary_txt
        /\ readme' = readme
        /\ actionable' = actionable
\* C7: in a cycle whose fetch succeeds and that yields no opportunity, no
\* step raises, and none changes the ledger, the summary or the report.
C7_EmptyCycleEndsNormally == [][C7_EmptyCycleStep]_vars

\* C8: days_elapsed is at least 1 whenever the summarizer can run, and no
\* projection divides by zero.
C8_DaysElapsedPositive ==
    /\ DaysElapsed(now) >= 1
    /\ pc # "ZeroDivisionError"
    /\ summary_txt # NoSummary => summary_txt.days_elapsed >= 1

C8_Witness ==
    /\ pc = "calculated"
    /\ now = Epoch
    /\ summary_txt # NoSummary
    /\ summary_txt.days_elapsed = 1

\* the last row of the ledger file, of one URL, that satisfies P
LastOf(log, url, P(_)) ==
    LET hits == {i \in 1..Len(log) : log[i].murl = url /\ P(log[i])}
    IN  IF hits = {} THEN {}
        ELSE {log[CHOOSE i \in hits : \A j \in hits : j <= i]}

Positive(r) == r.profit_net > 0
NotNegative(r) == r.profit_net >= 0

C10_PiCutMinIsLeastLegFee ==
    /\ pc \in {"aggregated", "market_level", "filtered"} =>
          \A i \in RowIndex :
              Rows[i].contracts_ct >= 1 =>
                  /\ Rows[i].pi_cut_min
                        = MinLegFee(DistinctWithNoCost(SourceContracts(Rows[i])))
                  /\ Rows[i].pi_cut_min <= Rows[i].pi_cut
    /\ pc \in {"market_level", "filtered"} =>
          \A i \in RowIndex : Rows[i].pi_cut_less_min >= 0

C10_Witness ==
    /\ pc = "market_level"
    /\ \E i \in RowIndex :
          /\ Rows[i].contracts_ct >= 2
          /\ Rows[i].pi_cut_min < LegFee(SourceContracts(Rows[i])[1])
          /\ Rows[i].pi_cut_less_min > 0

\* ------------------------------------------------------- further checks
\* What the summarizer keeps instead: exactly one row for every URL of the
\* ledger, the row of the earliest capture.
ActionableIsOldestPerUrl ==
    LET log == ArbsLog
    IN  \A i \in 1..Len(log) :
            LET mine == {j \in 1..Len(actionable) : actionable[j].murl = log[i].murl}
            IN  /\ Cardinality(mine) = 1
                /\ \A j \in mine : actionable[j].dttm <= log[i].dttm

\* A cycle without opportunity ends normally, with the append and the
\* summarizer skipped, whenever the feed lists at least one contract.
NonEmptyFeedCycleStep ==
    (response = "ok" /\ pc \in InCalculate /\ Opportunities(Feed) = {}
        /\ Flatten(Feed) # <<>>) =>
        /\ pc' \notin Raised
        /\ pc = "filtered" => pc' = "calculated"
        /\ arbs_csv' = arbs_csv
        /\ summary_txt' = summary_txt
        /\ readme' = readme
        /\ actionable' = actionable
NonEmptyFeedCycleEndsNormally == [][NonEmptyFeedCycleStep]_vars

\* The only exception of the polling loop is the KeyError of a feed
\* without contracts.
OnlyEmptyFeedRaises == pc \in Raised => (pc = "KeyError" /\ Flatten(Feed) = <<>>)

====
